---- MODULE Spec2Model ----
(***************************************************************************)
(* The three programs of the shell tutorial as one state machine:          *)
(*   argv-shell  (src/unnamed/part_000, lines 412-450)                     *)
(*   ls-shell    (src/ls-shell.c)                                          *)
(*   simple-pipe (src/simple-pipe.c)                                       *)
(* Init picks the program that is run (prog) and, for argv-shell, the      *)
(* bytes waiting on standard input.  Every process is scheduled            *)
(* independently: each action is one step of one process.                  *)
(***************************************************************************)
EXTENDS Integers, Sequences, FiniteSets, TLC

VARIABLES
  prog,          \* which of the three programs runs
  pc,            \* position of the original process in main
  mainret,       \* exit code of the original process
  kids,          \* the processes fork created, by pid 1, 2, ...
  xfail,         \* history: the processes whose execv returned (0: the original)
  err,           \* what was written to standard error, and by which process
  out,           \* what was written to standard output
  fds,           \* simple-pipe: the descriptor table of each process
  pipe_fds,      \* simple-pipe: int pipe_fds[2]
  npipes,        \* simple-pipe: history, the number of pipes created
  stdin,         \* argv-shell: bytes not yet consumed from standard input
  raw,           \* argv-shell: history, the line as getline returned it
  line,          \* argv-shell: the getline buffer (n bytes and a NUL)
  n,             \* argv-shell: getline's return value
  words,         \* argv-shell: the entries the split loop stored in words[]
  oob,           \* argv-shell: a store of the split loop landed outside words[]
  child,         \* argv-shell: fork's return value
  child_status   \* argv-shell: the int waitpid fills in

procvars == <<pc, mainret, kids, xfail, err, out>>
pipevars == <<fds, pipe_fds, npipes>>
linevars == <<stdin, raw, line, n, words, oob>>
waitvars == <<child, child_status>>
vars     == <<prog, procvars, pipevars, linevars, waitvars>>

(***************************************************************************)
(* Bounds of the model and constants of the program.                       *)
(***************************************************************************)
MaxLen == 5            \* longest short input, in bytes

WORDS_LEN == 256       \* char *words[256]

NULL == -1             \* the null pointer, among buffer offsets 0, 1, ...

UNINIT == -2           \* an int that was never assigned

NUL == "NUL"           \* the byte '\0'
SP  == " "
NL  == "\n"

Alphabet == {"a", SP, NL}

Garbage == {0, 32767}  \* what reading an unassigned int may yield

ExitCodes == {0, 2}    \* exit codes of the programs that exec starts

\* The wait status of a process that exited with `code`: W_EXITCODE(code, 0).
WStatus(code) == (code * 256) % 65536

(***************************************************************************)
(* Sequences of bytes.                                                     *)
(***************************************************************************)
Rep(s, k) == [i \in 1..(k * Len(s)) |-> s[((i - 1) % Len(s)) + 1]]

RECURSIVE SeqsUpTo(_)
SeqsUpTo(k) ==
  IF k = 0 THEN {<<>>}
  ELSE LET S == SeqsUpTo(k - 1) IN
       S \cup {Append(s, c) : s \in {t \in S : Len(t) = k - 1}, c \in Alphabet}

\* Lines that reach the end of words[]: WORDS_LEN - 1 words fit with their
\* terminating NULL, WORDS_LEN words do not.
LongInputs ==
  { Rep(<<SP>>, WORDS_LEN - 2) \o <<NL>>,
    Rep(<<SP>>, WORDS_LEN - 1) \o <<NL>>,
    <<"a">> \o Rep(<<SP, "a">>, WORDS_LEN - 2) \o <<NL>>,
    <<"a">> \o Rep(<<SP, "a">>, WORDS_LEN - 1) \o <<NL>> }

Inputs == SeqsUpTo(MaxLen) \cup LongInputs

(***************************************************************************)
(* C strings in a buffer.  Offsets are 0-based, as pointers line + off.    *)
(***************************************************************************)
RECURSIVE StrEnd(_, _)
\* offset of the first NUL at or after off
StrEnd(buf, off) == IF buf[off + 1] = NUL THEN off ELSE StrEnd(buf, off + 1)

\* the string a char* pointing at offset off denotes
CStr(buf, off) == SubSeq(buf, off + 1, StrEnd(buf, off))

RECURSIVE strchr(_, _, _)
\* strchr(line + off, c): offset of the first c before the terminating NUL
strchr(buf, off, c) ==
  IF buf[off + 1] = c THEN off
  ELSE IF buf[off + 1] = NUL THEN NULL
  ELSE strchr(buf, off + 1, c)

(***************************************************************************)
(* getline: the bytes up to and including the first newline, or all that   *)
(* is left at end of input; -1 when nothing is left.                       *)
(***************************************************************************)
LineLen(in) ==
  LET nls == {i \in 1..Len(in) : in[i] = NL} IN
  IF nls = {} THEN Len(in)
  ELSE CHOOSE i \in nls : \A j \in nls : i <= j

getline(in) ==
  IF in = <<>> THEN [n |-> -1, line |-> <<>>, rest |-> in]
  ELSE LET k == LineLen(in) IN
       [n |-> k, line |-> Append(SubSeq(in, 1, k), NUL),
        rest |-> SubSeq(in, k + 1, Len(in))]

(***************************************************************************)
(* Descriptor tables: descriptor -> the open file it refers to.            *)
(***************************************************************************)
MaxFd == 4             \* descriptors 0 .. MaxFd

Fds == 0..MaxFd

NoFds == [fd \in Fds |-> "closed"]

\* 0, 1 and 2 refer to the terminal the program was started on
StdFds == [fd \in Fds |-> IF fd <= 2 THEN "tty" ELSE "closed"]

LowestFree(tab) ==
  LET free == {fd \in Fds : tab[fd] = "closed"} IN
  CHOOSE fd \in free : \A g \in free : fd <= g

\* dup2(oldfd, newfd): newfd now refers to what oldfd refers to
dup2(tab, oldfd, newfd) ==
  IF oldfd \notin Fds \/ tab[oldfd] = "closed" THEN tab
  ELSE [tab EXCEPT ![newfd] = tab[oldfd]]

\* close(fd): removes the entry from the table
close(tab, fd) == IF fd \in Fds THEN [tab EXCEPT ![fd] = "closed"] ELSE tab

(***************************************************************************)
(* Processes.  The original process is pid 0 (its position is pc); the     *)
(* process that the k-th successful fork created is kids[k].               *)
(***************************************************************************)
BIN_LS == <<"/", "b", "i", "n", "/", "l", "s">>
USR_BIN_WC == <<"/", "u", "s", "r", "/", "b", "i", "n", "/", "w", "c">>

ls_argv == <<BIN_LS>>                 \* { "/bin/ls", NULL }
wc_args == <<USR_BIN_WC, <<"-", "l">>>>   \* { "/usr/bin/wc", "-l", NULL }

\* A process fresh from fork, at position st of the code it shares with its
\* parent; path and argv are what it will hand to execv (its copy of memory).
NewKid(st, path, argv) ==
  [st |-> st, path |-> path, argv |-> argv, wstatus |-> UNINIT, reaper |-> "none"]

Pids == 1..Len(kids)

\* One line on standard error: who wrote it, its text, and the %d argument.
ErrLine(by, text, arg) == [by |-> by, text |-> text, arg |-> arg]

PerrorText ==
  IF prog = "ls-shell" THEN "uh oh, execv() returned\n" ELSE "execv() failed"

(***************************************************************************)
(* The split loop of argv-shell:                                           *)
(*   words[0] = line;                                                      *)
(*   for (int i = 1; words[i] = strchr(words[i - 1], ' '); ++i)            *)
(*     *(words[i]++) = '\0';                                               *)
(* ws holds the entries stored so far, words[0] .. words[i - 1].           *)
(***************************************************************************)
\* offset of the first byte at or after off that is not c
SkipRun(buf, off, c) ==
  LET other == {o \in off..(Len(buf) - 1) : buf[o + 1] # c} IN
  CHOOSE o \in other : \A q \in other : o <= q

\* Variant of SplitIter: a run of spaces counts as one separator.
SplitIter_Collapse(buf, ws) ==
  LET p == strchr(buf, ws[Len(ws)], SP) IN
  IF p = NULL
  THEN [line |-> buf, words |-> Append(ws, NULL), more |-> FALSE]
  ELSE [line |-> [buf EXCEPT ![p + 1] = NUL],
        words |-> Append(ws, SkipRun(buf, p + 1, SP)), more |-> TRUE]

\* One evaluation of the loop condition and, when it is true, of the body.
SplitIter(buf, ws) ==
  LET p == strchr(buf, ws[Len(ws)], SP) IN
  IF p = NULL
  THEN [line |-> buf, words |-> Append(ws, NULL), more |-> FALSE]
  ELSE [line |-> [buf EXCEPT ![p + 1] = NUL], words |-> Append(ws, p + 1),
        more |-> TRUE]

\* The vector execv reads from words: the strings up to the first NULL.
Argc(ws) ==
  LET nulls == {i \in 1..Len(ws) : ws[i] = NULL} IN
  IF nulls = {} THEN Len(ws)
  ELSE (CHOOSE i \in nulls : \A j \in nulls : i <= j) - 1

Argv(buf, ws) == [i \in 1..Argc(ws) |-> CStr(buf, ws[i])]

(***************************************************************************)
(* argv-shell, the shell process.                                          *)
(***************************************************************************)
\* while ((n = getline(&line, &line_size, stdin)) > 0)
ShellGetline ==
  /\ prog = "argv-shell" /\ pc = "getline"
  /\ LET g == getline(stdin) IN
     /\ n' = g.n
     /\ stdin' = g.rest
     /\ IF g.n > 0
        THEN /\ line' = g.line /\ raw' = g.line /\ pc' = "erase"
        ELSE /\ pc' = "exit" /\ UNCHANGED <<line, raw>>
  /\ UNCHANGED <<prog, mainret, kids, xfail, err, out, pipevars, words, oob, waitvars>>

\* line[n - 1] = '\0';
ShellErase ==
  /\ prog = "argv-shell" /\ pc = "erase"
  /\ line' = [line EXCEPT ![n] = NUL]
  /\ pc' = "words0"
  /\ UNCHANGED <<prog, mainret, kids, xfail, err, out, pipevars,
                 stdin, raw, n, words, oob, waitvars>>

\* words[0] = line;
ShellSplitInit ==
  /\ prog = "argv-shell" /\ pc = "words0"
  /\ words' = <<0>>
  /\ pc' = "split"
  /\ UNCHANGED <<prog, mainret, kids, xfail, err, out, pipevars,
                 stdin, raw, line, n, oob, waitvars>>

\* One iteration of the for loop, storing words[i] with i = Len(words).  A
\* store at an index from WORDS_LEN on is outside the array: undefined
\* behaviour, after which the process either goes on as if the store had
\* landed in spare memory or is killed.
ShellSplitStep ==
  /\ prog = "argv-shell" /\ pc = "split"
  /\ LET it == SplitIter(line, words) IN
     \/ /\ Len(words) < WORDS_LEN
        /\ line' = it.line /\ words' = it.words
        /\ pc' = IF it.more THEN "split" ELSE "fork"
        /\ UNCHANGED oob
     \/ /\ Len(words) >= WORDS_LEN
        /\ line' = it.line /\ words' = it.words
        /\ pc' = IF it.more THEN "split" ELSE "fork"
        /\ oob' = TRUE
     \/ /\ Len(words) >= WORDS_LEN
        /\ pc' = "crashed"
        /\ oob' = TRUE
        /\ UNCHANGED <<line, words>>
  /\ UNCHANGED <<prog, mainret, kids, xfail, err, out, pipevars,
                 stdin, raw, n, waitvars>>

\* if (child = fork()): the parent's side.  fork returns the new pid, or -1
\* when no process could be created; both are nonzero.
ShellFork ==
  /\ prog = "argv-shell" /\ pc = "fork"
  /\ \/ /\ kids' = Append(kids, NewKid("execv", CStr(line, words[1]),
                                       Argv(line, words)))
        /\ child' = Len(kids) + 1
     \/ /\ child' = -1
        /\ UNCHANGED kids
  /\ pc' = "waitpid"
  /\ UNCHANGED <<prog, mainret, xfail, err, out, pipevars, linevars, child_status>>

\* Variant of ShellWaitpid: returns at once when the child is still running
\* (as with WNOHANG), collecting nothing.
ShellWaitpid_NoHang ==
  /\ prog = "argv-shell" /\ pc = "waitpid"
  /\ LET cand == IF child = -1 THEN {p \in Pids : kids[p].st # "reaped"}
                 ELSE {p \in Pids : p = child /\ kids[p].st # "reaped"}
         dead == {p \in cand : kids[p].st = "zombie"}
     IN IF dead = {}
        THEN UNCHANGED <<kids, child_status>>
        ELSE \E p \in dead :
               /\ child_status' = kids[p].wstatus
               /\ kids' = [kids EXCEPT ![p].st = "reaped", ![p].reaper = "parent"]
  /\ pc' = "fprintf"
  /\ UNCHANGED <<prog, mainret, xfail, err, out, pipevars, linevars, child>>

\* waitpid(child, &child_status, 0): blocks until the child named by `child`
\* (any child when it is -1) has terminated, then collects its status; fails
\* at once (ECHILD), leaving child_status alone, when there is no such child.
ShellWaitpid ==
  /\ prog = "argv-shell" /\ pc = "waitpid"
  /\ LET cand == IF child = -1 THEN {p \in Pids : kids[p].st # "reaped"}
                 ELSE {p \in Pids : p = child /\ kids[p].st # "reaped"}
     IN IF cand = {}
        THEN UNCHANGED <<kids, child_status>>
        ELSE \E p \in cand :
               /\ kids[p].st = "zombie"
               /\ child_status' = kids[p].wstatus
               /\ kids' = [kids EXCEPT ![p].st = "reaped", ![p].reaper = "parent"]
  /\ pc' = "fprintf"
  /\ UNCHANGED <<prog, mainret, xfail, err, out, pipevars, linevars, child>>

\* fprintf(stderr, "child exited with status %d\n", child_status); fflush
ShellReport ==
  /\ prog = "argv-shell" /\ pc = "fprintf"
  /\ \E v \in (IF child_status = UNINIT THEN Garbage ELSE {child_status}) :
       err' = Append(err, ErrLine(0, "child exited with status", v))
  /\ pc' = "getline"
  /\ UNCHANGED <<prog, mainret, kids, xfail, out, pipevars, linevars, waitvars>>

\* getline returned -1: the loop ends and main runs off its end (exit code 0)
ShellExit ==
  /\ prog = "argv-shell" /\ pc = "exit"
  /\ mainret' = 0
  /\ pc' = "exited"
  /\ UNCHANGED <<prog, kids, xfail, err, out, pipevars, linevars, waitvars>>

(***************************************************************************)
(* The forked child of argv-shell and of ls-shell.                         *)
(***************************************************************************)
\* execv(path, argv): on success the process becomes the program; on failure
\* (always for the empty path, which names no file) execv returns.
ChildExecv(p) ==
  /\ prog \in {"argv-shell", "ls-shell"}
  /\ kids[p].st = "execv"
  /\ \/ /\ kids[p].path # <<>>
        /\ kids' = [kids EXCEPT ![p].st = "program"]
        /\ UNCHANGED xfail
     \/ /\ kids' = [kids EXCEPT ![p].st = "perror"]
        /\ xfail' = xfail \cup {p}
  /\ UNCHANGED <<prog, pc, mainret, err, out, pipevars, linevars, waitvars>>

\* perror("...");
ChildPerror(p) ==
  /\ prog \in {"argv-shell", "ls-shell"}
  /\ kids[p].st = "perror"
  /\ err' = Append(err, ErrLine(p, PerrorText, 0))
  /\ kids' = [kids EXCEPT ![p].st = "return"]
  /\ UNCHANGED <<prog, pc, mainret, xfail, out, pipevars, linevars, waitvars>>

\* Variant of ChildReturn: instead of returning, the child tries execv again.
ChildReturn_RetryExec(p) ==
  /\ prog \in {"argv-shell", "ls-shell"}
  /\ kids[p].st = "return"
  /\ kids' = [kids EXCEPT ![p].st = "execv"]
  /\ UNCHANGED <<prog, pc, mainret, xfail, err, out, pipevars, linevars, waitvars>>

\* Variant of ChildReturn: after the failed execv the child goes on with the
\* loop as the shell does, forking a process of its own before it ends.
ChildReturn_ForksAgain(p) ==
  /\ prog \in {"argv-shell", "ls-shell"}
  /\ kids[p].st = "return"
  /\ kids' = Append([kids EXCEPT ![p].st = "zombie", ![p].wstatus = WStatus(1)],
                    NewKid("execv", kids[p].path, kids[p].argv))
  /\ UNCHANGED <<prog, pc, mainret, xfail, err, out, pipevars, linevars, waitvars>>

\* return 1;
ChildReturn(p) ==
  /\ prog \in {"argv-shell", "ls-shell"}
  /\ kids[p].st = "return"
  /\ kids' = [kids EXCEPT ![p].st = "zombie", ![p].wstatus = WStatus(1)]
  /\ UNCHANGED <<prog, pc, mainret, xfail, err, out, pipevars, linevars, waitvars>>

\* A program started by execv runs and exits with some code.
ProgramExit(p) ==
  /\ prog \in {"argv-shell", "ls-shell"}
  /\ kids[p].st = "program"
  /\ \E code \in ExitCodes :
       kids' = [kids EXCEPT ![p].st = "zombie", ![p].wstatus = WStatus(code)]
  /\ UNCHANGED <<prog, pc, mainret, xfail, err, out, pipevars, linevars, waitvars>>

\* Once the original process is gone its children belong to init, which
\* waits for them.
InitReap(p) ==
  /\ pc \in {"exited", "crashed"}
  /\ kids[p].st = "zombie"
  /\ kids' = [kids EXCEPT ![p].st = "reaped", ![p].reaper = "init"]
  /\ UNCHANGED <<prog, pc, mainret, xfail, err, out, pipevars, linevars, waitvars>>

(***************************************************************************)
(* ls-shell, the original process.                                         *)
(***************************************************************************)
\* if (!fork()): 0 in the child, the pid or -1 in the parent
LsFork ==
  /\ prog = "ls-shell" /\ pc = "fork"
  /\ \/ kids' = Append(kids, NewKid("execv", BIN_LS, ls_argv))
     \/ UNCHANGED kids
  /\ pc' = "printf"
  /\ UNCHANGED <<prog, mainret, xfail, err, out, pipevars, linevars, waitvars>>

\* Variant of LsPrintf: the parent first waits for its child to terminate.
LsPrintf_AfterChild ==
  /\ prog = "ls-shell" /\ pc = "printf"
  /\ \A p \in Pids : kids[p].st \in {"zombie", "reaped"}
  /\ out' = Append(out, "hope that worked\n")
  /\ pc' = "return"
  /\ UNCHANGED <<prog, mainret, kids, xfail, err, pipevars, linevars, waitvars>>

\* printf("hope that worked\n");
LsPrintf ==
  /\ prog = "ls-shell" /\ pc = "printf"
  /\ out' = Append(out, "hope that worked\n")
  /\ pc' = "return"
  /\ UNCHANGED <<prog, mainret, kids, xfail, err, pipevars, linevars, waitvars>>

\* return 0;
LsReturn ==
  /\ prog = "ls-shell" /\ pc = "return"
  /\ mainret' = 0
  /\ pc' = "exited"
  /\ UNCHANGED <<prog, kids, xfail, err, out, pipevars, linevars, waitvars>>

(***************************************************************************)
(* simple-pipe.  fds[0] is the descriptor table of the original process    *)
(* (the fork() != 0 branch, which becomes /bin/ls), fds[1] that of the     *)
(* forked process (which becomes /usr/bin/wc).                             *)
(***************************************************************************)
\* the processes whose descriptor table refers to the write end of the pipe
WriteEndHolders == {p \in DOMAIN fds : \E fd \in Fds : fds[p][fd] = "pipe_w"}

\* pipe(pipe_fds): the two lowest free descriptors, (read_end, write_end)
PipePipe ==
  /\ prog = "simple-pipe" /\ pc = "pipe"
  /\ LET r == LowestFree(fds[0])
         w == LowestFree([fds[0] EXCEPT ![r] = "pipe_r"])
     IN /\ pipe_fds' = <<r, w>>
        /\ fds' = [fds EXCEPT ![0] = [@ EXCEPT ![r] = "pipe_r", ![w] = "pipe_w"]]
        /\ npipes' = npipes + 1
  /\ pc' = "fork"
  /\ UNCHANGED <<prog, mainret, kids, xfail, err, out, linevars, waitvars>>

\* Variant of PipeFork: fork is called a second time by the parent.
PipeFork_Twice ==
  /\ prog = "simple-pipe" /\ pc = "fork"
  /\ kids' = kids \o <<NewKid("dup2", USR_BIN_WC, wc_args),
                       NewKid("dup2", USR_BIN_WC, wc_args)>>
  /\ fds' = [fds EXCEPT ![1] = fds[0]]
  /\ pc' = "dup2"
  /\ UNCHANGED <<prog, mainret, xfail, err, out, pipe_fds, npipes, linevars, waitvars>>

\* if (fork()): the child gets a copy of the descriptor table
PipeFork ==
  /\ prog = "simple-pipe" /\ pc = "fork"
  /\ \/ /\ kids' = Append(kids, NewKid("dup2", USR_BIN_WC, wc_args))
        /\ fds' = [fds EXCEPT ![1] = fds[0]]
     \/ UNCHANGED <<kids, fds>>
  /\ pc' = "dup2"
  /\ UNCHANGED <<prog, mainret, xfail, err, out, pipe_fds, npipes, linevars, waitvars>>

\* Variant of PipeLsDup2: the arguments of dup2 are exchanged.
PipeLsDup2_Swapped ==
  /\ prog = "simple-pipe" /\ pc = "dup2"
  /\ fds' = [fds EXCEPT ![0] = dup2(@, 1, pipe_fds[2])]
  /\ pc' = "close"
  /\ UNCHANGED <<prog, mainret, kids, xfail, err, out, pipe_fds, npipes, linevars, waitvars>>

\* dup2(pipe_fds[1], 1);
PipeLsDup2 ==
  /\ prog = "simple-pipe" /\ pc = "dup2"
  /\ fds' = [fds EXCEPT ![0] = dup2(@, pipe_fds[2], 1)]
  /\ pc' = "close"
  /\ UNCHANGED <<prog, mainret, kids, xfail, err, out, pipe_fds, npipes, linevars, waitvars>>

\* close(pipe_fds[0]);
PipeLsClose ==
  /\ prog = "simple-pipe" /\ pc = "close"
  /\ fds' = [fds EXCEPT ![0] = close(@, pipe_fds[1])]
  /\ pc' = "execv"
  /\ UNCHANGED <<prog, mainret, kids, xfail, err, out, pipe_fds, npipes, linevars, waitvars>>

\* execv("/bin/ls", ls_args); when it returns, main runs off its end
PipeLsExecv ==
  /\ prog = "simple-pipe" /\ pc = "execv"
  /\ \/ /\ pc' = "program"
        /\ UNCHANGED xfail
     \/ /\ pc' = "end"
        /\ xfail' = xfail \cup {0}
  /\ UNCHANGED <<prog, mainret, kids, err, out, pipevars, linevars, waitvars>>

\* the closing brace of main, reached after a failed execv: exit code 0
PipeLsEnd ==
  /\ prog = "simple-pipe" /\ pc = "end"
  /\ mainret' = 0
  /\ pc' = "exited"
  /\ fds' = [fds EXCEPT ![0] = NoFds]
  /\ UNCHANGED <<prog, kids, xfail, err, out, pipe_fds, npipes, linevars, waitvars>>

\* /bin/ls runs and exits
PipeLsProgramExit ==
  /\ prog = "simple-pipe" /\ pc = "program"
  /\ \E code \in ExitCodes : mainret' = code
  /\ pc' = "exited"
  /\ fds' = [fds EXCEPT ![0] = NoFds]
  /\ UNCHANGED <<prog, kids, xfail, err, out, pipe_fds, npipes, linevars, waitvars>>

\* dup2(pipe_fds[0], 0);
PipeWcDup2 ==
  /\ prog = "simple-pipe" /\ Len(kids) >= 1 /\ kids[1].st = "dup2"
  /\ fds' = [fds EXCEPT ![1] = dup2(@, pipe_fds[1], 0)]
  /\ kids' = [kids EXCEPT ![1].st = "close"]
  /\ UNCHANGED <<prog, pc, mainret, xfail, err, out, pipe_fds, npipes, linevars, waitvars>>

\* Variant of PipeWcClose: the forked process keeps its copy of the write end.
PipeWcClose_Forgotten ==
  /\ prog = "simple-pipe" /\ Len(kids) >= 1 /\ kids[1].st = "close"
  /\ kids' = [kids EXCEPT ![1].st = "execv"]
  /\ UNCHANGED <<prog, pc, mainret, xfail, err, out, pipevars, linevars, waitvars>>

\* close(pipe_fds[1]);
PipeWcClose ==
  /\ prog = "simple-pipe" /\ Len(kids) >= 1 /\ kids[1].st = "close"
  /\ fds' = [fds EXCEPT ![1] = close(@, pipe_fds[2])]
  /\ kids' = [kids EXCEPT ![1].st = "execv"]
  /\ UNCHANGED <<prog, pc, mainret, xfail, err, out, pipe_fds, npipes, linevars, waitvars>>

\* execv("/usr/bin/wc", wc_args); when it returns, main runs off its end
PipeWcExecv ==
  /\ prog = "simple-pipe" /\ Len(kids) >= 1 /\ kids[1].st = "execv"
  /\ \/ /\ kids' = [kids EXCEPT ![1].st = "program"]
        /\ UNCHANGED xfail
     \/ /\ kids' = [kids EXCEPT ![1].st = "end"]
        /\ xfail' = xfail \cup {1}
  /\ UNCHANGED <<prog, pc, mainret, err, out, pipevars, linevars, waitvars>>

\* the closing brace of main in the forked process: exit code 0
PipeWcEnd ==
  /\ prog = "simple-pipe" /\ Len(kids) >= 1 /\ kids[1].st = "end"
  /\ kids' = [kids EXCEPT ![1].st = "zombie", ![1].wstatus = WStatus(0)]
  /\ fds' = [fds EXCEPT ![1] = NoFds]
  /\ UNCHANGED <<prog, pc, mainret, xfail, err, out, pipe_fds, npipes, linevars, waitvars>>

\* /usr/bin/wc -l reads descriptor 0 to its end, prints the count and exits.
\* A read on a pipe returns end-of-file only when no descriptor of any
\* process refers to the pipe's write end any more.
PipeWcProgramExit ==
  /\ prog = "simple-pipe" /\ Len(kids) >= 1 /\ kids[1].st = "program"
  /\ WriteEndHolders = {}
  /\ \E code \in ExitCodes :
       kids' = [kids EXCEPT ![1].st = "zombie", ![1].wstatus = WStatus(code)]
  /\ fds' = [fds EXCEPT ![1] = NoFds]
  /\ UNCHANGED <<prog, pc, mainret, xfail, err, out, pipe_fds, npipes, linevars, waitvars>>

(***************************************************************************)
(* The whole system.                                                       *)
(***************************************************************************)
Programs == {"argv-shell", "ls-shell", "simple-pipe"}

Init ==
  /\ prog \in Programs
  /\ pc = CASE prog = "argv-shell" -> "getline"
            [] prog = "ls-shell" -> "fork"
            [] prog = "simple-pipe" -> "pipe"
  /\ mainret = UNINIT
  /\ kids = <<>>
  /\ xfail = {}
  /\ err = <<>>
  /\ out = <<>>
  /\ fds = [p \in 0..1 |-> IF p = 0 THEN StdFds ELSE NoFds]
  /\ pipe_fds = <<UNINIT, UNINIT>>
  /\ npipes = 0
  /\ stdin \in (IF prog = "argv-shell" THEN Inputs ELSE {<<>>})
  /\ raw = <<>>
  /\ line = <<>>
  /\ n = 0
  /\ words = <<>>
  /\ oob = FALSE
  /\ child = UNINIT
  /\ child_status = UNINIT

Next ==
  \/ ShellGetline \/ ShellErase \/ ShellSplitInit \/ ShellSplitStep
  \/ ShellFork \/ ShellWaitpid \/ ShellReport \/ ShellExit
  \/ LsFork \/ LsPrintf \/ LsReturn
  \/ PipePipe \/ PipeFork \/ PipeLsDup2 \/ PipeLsClose \/ PipeLsExecv
  \/ PipeLsEnd \/ PipeLsProgramExit
  \/ PipeWcDup2 \/ PipeWcClose \/ PipeWcExecv \/ PipeWcEnd
  \/ PipeWcProgramExit
  \/ \E p \in Pids : ChildExecv(p)
  \/ \E p \in Pids : ChildPerror(p)
  \/ \E p \in Pids : ChildReturn(p)
  \/ \E p \in Pids : ProgramExit(p)
  \/ \E p \in Pids : InitReap(p)

Spec == Init /\ [][Next]_vars

(***************************************************************************)
(* Scheduling: the kernel runs every process that can take a step, so the  *)
(* shell and the code of the forked children before exec are weakly fair.  *)
(* Nothing makes a program started by exec terminate.                      *)
(***************************************************************************)
ShellStep ==
  \/ ShellGetline \/ ShellErase \/ ShellSplitInit \/ ShellSplitStep
  \/ ShellFork \/ ShellWaitpid \/ ShellReport \/ ShellExit

ChildStep == \E p \in Pids : ChildExecv(p) \/ ChildPerror(p) \/ ChildReturn(p)

FairSpec == Spec /\ WF_vars(ShellStep) /\ WF_vars(ChildStep)

\* the steps of ls-shell's original process
LsStep == LsFork \/ LsPrintf \/ LsReturn

FairLs == FairSpec /\ WF_vars(LsStep)

\* the steps of simple-pipe's forked process, wc's exit at end-of-file included
WcStep ==
  \/ PipeWcDup2 \/ PipeWcClose \/ PipeWcExecv \/ PipeWcEnd
  \/ PipeWcProgramExit

FairWc == FairSpec /\ WF_vars(WcStep)

(***************************************************************************)
(* Vocabulary of the properties.                                           *)
(***************************************************************************)
IsShell == prog = "argv-shell"

\* positions of the shell at which raw is the line being handled
InLine == pc \in {"erase", "words0", "split", "fork", "waitpid", "fprintf", "crashed"}

\* positions at which the split loop has run to its end
AfterSplit == pc \in {"fork", "waitpid", "fprintf"}

\* the text that is split: the line without its last byte
Text(r) == SubSeq(r, 1, Len(r) - 2)

EndsWithNL(r) == Len(r) >= 2 /\ r[Len(r) - 1] = NL

SingleSpaced(t) ==
  /\ t # <<>> /\ t[1] # SP /\ t[Len(t)] # SP
  /\ \A i \in 1..(Len(t) - 1) : ~(t[i] = SP /\ t[i + 1] = SP)

SpaceAt(t) == SelectSeq([i \in 1..Len(t) |-> i], LAMBDA i : t[i] = SP)

\* the fields of t between its spaces, in order
FieldsOf(t) ==
  LET sp == SpaceAt(t)
      K == Len(sp) + 1
  IN [k \in 1..K |-> SubSeq(t, IF k = 1 THEN 1 ELSE sp[k - 1] + 1,
                               IF k = K THEN Len(t) ELSE sp[k] - 1)]

Terminated(p) == IF p = 0 THEN pc = "exited" ELSE kids[p].st \in {"zombie", "reaped"}

ExitCode(p) == IF p = 0 THEN mainret ELSE kids[p].wstatus \div 256

Reported(p) == \E i \in 1..Len(err) : err[i].by = p /\ err[i].text = PerrorText

StatusLines == SelectSeq(err, LAMBDA e : e.text = "child exited with status")

PipeFdsOf(tab) == {fd \in Fds : tab[fd] \in {"pipe_r", "pipe_w"}}

(***************************************************************************)
(* C1: in argv-shell, whenever the shell is about to call getline or has   *)
(* left its loop (or was killed), every process fork created has           *)
(* terminated and was reaped, by the shell's own waitpid.                  *)
(***************************************************************************)
C1_ChildReapedBeforeNextLine ==
  IsShell /\ pc \in {"getline", "exit", "exited", "crashed"}
    => \A p \in Pids : kids[p].st = "reaped" /\ kids[p].reaper = "parent"

C1_Witness ==
  /\ IsShell /\ pc = "getline" /\ Len(kids) >= 2
  /\ \A p \in Pids : kids[p].st = "reaped"

(***************************************************************************)
(* C2: for a newline-ended line of non-empty words separated by single     *)
(* spaces, the split loop leaves in words[0 .. 255] exactly those words in *)
(* order and a terminating NULL, and the child passes words[0] and that    *)
(* vector to execv.                                                        *)
(***************************************************************************)
C2_SplitYieldsTheWords ==
  IsShell /\ InLine /\ EndsWithNL(raw) /\ SingleSpaced(Text(raw))
    => /\ pc # "crashed"
       /\ Len(words) <= WORDS_LEN
       /\ AfterSplit => /\ words[Len(words)] = NULL
                        /\ Argv(line, words) = FieldsOf(Text(raw))
       /\ pc \in {"waitpid", "fprintf"} /\ child \in Pids
            => /\ kids[child].path = FieldsOf(Text(raw))[1]
               /\ kids[child].argv = FieldsOf(Text(raw))

(***************************************************************************)
(* C3 as claimed: whatever the line, the vector the split loop produces    *)
(* has no empty-string entry.  Stated for the newline-ended lines that     *)
(* hold a word, so that a violation rests on the spaces of the line alone. *)
(***************************************************************************)
HasWord(t) == \E i \in 1..Len(t) : t[i] # SP

C3_NoEmptyEntry ==
  IsShell /\ AfterSplit /\ EndsWithNL(raw) /\ HasWord(Text(raw))
    => \A i \in 1..Argc(words) : Argv(line, words)[i] # <<>>

(***************************************************************************)
(* C3 as amended: runs of spaces are not collapsed.  Every space ends one  *)
(* entry, so the vector has one entry more than the text has spaces, and   *)
(* it is free of empty strings exactly when the text is non-empty, has no  *)
(* space at either end and no two spaces in a row.                         *)
(***************************************************************************)
C3_EmptyEntryPerExtraSpace ==
  IsShell /\ AfterSplit
    => /\ Argc(words) = Len(SpaceAt(Text(raw))) + 1
       /\ (\A i \in 1..Argc(words) : Argv(line, words)[i] # <<>>)
            <=> SingleSpaced(Text(raw))

C3_Witness ==
  /\ IsShell /\ pc = "fork"
  /\ \E i \in 1..(Len(Text(raw)) - 1) : Text(raw)[i] = SP /\ Text(raw)[i + 1] = SP
  /\ \E i \in 1..Argc(words) : Argv(line, words)[i] = <<>>

(***************************************************************************)
(* C4: in all three programs, a process whose execv returned has, once it  *)
(* has terminated, reported the failure and exited with a nonzero code.    *)
(***************************************************************************)
C4_ExecFailureReportedNonzero ==
  \A p \in xfail : Terminated(p) => Reported(p) /\ ExitCode(p) # 0

(***************************************************************************)
(* C5: while argv-shell handles a line that is only a newline, no process  *)
(* is created, no exec is attempted and nothing is written to standard     *)
(* error.                                                                  *)
(***************************************************************************)
C5_EmptyLineIsNoOp ==
  [][IsShell /\ InLine /\ raw = <<NL, NUL>>
       => kids' = kids /\ xfail' = xfail /\ err' = err]_vars

(***************************************************************************)
(* C6: a line of argv-shell on which fork failed, or whose child's execv   *)
(* failed, is given up without a retry (no further process is created for  *)
(* it and the child does not call execv again), and the shell neither      *)
(* leaves its loop nor stays blocked: it comes back to getline.            *)
(***************************************************************************)
FailedLine ==
  /\ IsShell /\ pc \in {"waitpid", "fprintf"}
  /\ child = -1 \/ child \in xfail

C6_FailureAbortsOnlyTheLine ==
  /\ [][FailedLine => /\ Len(kids') = Len(kids)
                      /\ pc' \in {"waitpid", "fprintf", "getline"}
                      /\ \A p \in Pids \cap xfail : kids'[p].st # "execv"]_vars
  /\ FailedLine ~> (pc = "getline")

C6_Witness ==
  /\ IsShell /\ pc = "getline"
  /\ child = -1 /\ xfail # {} /\ Len(StatusLines) >= 2

(***************************************************************************)
(* C7: whenever argv-shell is between two lines, its status lines are, in  *)
(* order, the wait statuses of the children it created: one line for every *)
(* child, none without a child; and at no time are there more status lines *)
(* than terminated children.                                               *)
(***************************************************************************)
C7_OneStatusLinePerChild ==
  IsShell
    => /\ Len(StatusLines) <= Cardinality({p \in Pids : Terminated(p)})
       /\ pc \in {"getline", "exit", "exited"}
            => /\ Len(StatusLines) = Len(kids)
               /\ \A p \in Pids : StatusLines[p].arg = kids[p].wstatus

(***************************************************************************)
(* C8: when a process of simple-pipe is at its execv call, the only pipe   *)
(* descriptor in its table is its standard stream (1 for ls, 0 for wc), so *)
(* with both processes there the pipe has 2 references.                    *)
(***************************************************************************)
AtExecLs == prog = "simple-pipe" /\ pc = "execv"

AtExecWc == prog = "simple-pipe" /\ Len(kids) >= 1 /\ kids[1].st = "execv"

C8_OnlyStandardStreamsHoldThePipe ==
  /\ AtExecLs => PipeFdsOf(fds[0]) = {1}
  /\ AtExecWc => PipeFdsOf(fds[1]) = {0}
  /\ AtExecLs /\ AtExecWc
       => Cardinality(PipeFdsOf(fds[0])) + Cardinality(PipeFdsOf(fds[1])) = 2

(***************************************************************************)
(* C9: simple-pipe creates one pipe; from its execv call on, the first     *)
(* process (ls) has the write end as descriptor 1, the terminal as         *)
(* descriptor 0 and no read end, and the second (wc) has the read end as   *)
(* descriptor 0, the terminal as descriptor 1 and no write end.            *)
(***************************************************************************)
C9_PipeWiredToAdjacentEnds ==
  prog = "simple-pipe"
    => /\ pc \in {"execv", "program"}
            => /\ npipes = 1
               /\ fds[0][1] = "pipe_w" /\ fds[0][0] = "tty"
               /\ \A fd \in Fds : fds[0][fd] # "pipe_r"
       /\ Len(kids) >= 1 /\ kids[1].st \in {"execv", "program"}
            => /\ npipes = 1
               /\ fds[1][0] = "pipe_r" /\ fds[1][1] = "tty"
               /\ \A fd \in Fds : fds[1][fd] # "pipe_w"

C9_Witness ==
  /\ prog = "simple-pipe" /\ pc = "program"
  /\ Len(kids) = 1 /\ kids[1].st = "program"

(***************************************************************************)
(* C10 as claimed: once both processes of simple-pipe have exited, the     *)
(* program has collected the status of its child and two status lines      *)
(* stand on standard error, for ls and then for wc.                        *)
(***************************************************************************)
BothExited ==
  /\ prog = "simple-pipe" /\ pc = "exited"
  /\ Len(kids) = 1 /\ kids[1].st \in {"zombie", "reaped"}

C11_ParentNeverBlocks ==
  /\ [](prog = "ls-shell" /\ pc = "exited"
          => mainret = 0 /\ out = <<"hope that worked\n">>)
  /\ (prog = "ls-shell") ~> (pc = "exited")

C11_Witness ==
  /\ prog = "ls-shell" /\ pc = "exited" /\ mainret = 0
  /\ Len(kids) = 1 /\ kids[1].st = "program"

(***************************************************************************)
(* C12: for every line getline returns, the byte that line[n - 1] = '\0'   *)
(* erases is the line's newline, and the text handed to the split loop is  *)
(* the line's content without its newline: no other byte is dropped, also  *)
(* on a last line that ends at end of input without a newline.             *)
(***************************************************************************)
\* the bytes getline read, without a newline that ends them
LineContent(r) ==
  LET k == Len(r) - 1 IN
  IF k >= 1 /\ r[k] = NL THEN SubSeq(r, 1, k - 1) ELSE SubSeq(r, 1, k)

C12_ErasedByteIsTheNewline ==
  IsShell /\ pc = "words0"
    => /\ raw[n] = NL
       /\ CStr(line, 0) = LineContent(raw)


(***************************************************************************)
(* C13 as claimed: in simple-pipe, once the ls process has terminated, no  *)
(* process holds an open descriptor on the write end of the pipe.          *)
(***************************************************************************)
LsTerminated == prog = "simple-pipe" /\ pc = "exited"

C13_NoWriteEndOnceLsTerminated == LsTerminated => WriteEndHolders = {}

(***************************************************************************)
(* C13, amended: the forked process holds no write end from its execv on;  *)
(* once ls has terminated and wc is running, no process holds a write end; *)
(* and when the fork succeeded, the termination of ls leads to the         *)
(* termination of the forked process (wc at end-of-file, or main's end     *)
(* after a failed execv).                                                  *)
(***************************************************************************)
WcPastClose ==
  /\ prog = "simple-pipe" /\ Len(kids) >= 1
  /\ kids[1].st \in {"execv", "program", "end"}

WcTerminated ==
  /\ prog = "simple-pipe" /\ Len(kids) >= 1
  /\ kids[1].st \in {"zombie", "reaped"}

C13_WcReachesEndOfFile ==
  /\ [](WcPastClose => 1 \notin WriteEndHolders)
  /\ [](LsTerminated /\ WcPastClose => WriteEndHolders = {})
  /\ (LsTerminated /\ Len(kids) >= 1) ~> WcTerminated

C13_Witness ==
  /\ LsTerminated /\ WcTerminated
  /\ xfail = {} /\ kids[1].st = "zombie"


(***************************************************************************)
(* C14: every store of the split loop, of a word pointer or of the final   *)
(* NULL, lands at an index from 0 to WORDS_LEN - 1 of words[], whatever    *)
(* the number of spaces in the line.  Entry k of the sequence words is     *)
(* the store at index k - 1.                                               *)
(***************************************************************************)
C14_SplitStoresInsideWords ==
  IsShell
    => /\ ~oob
       /\ \A k \in 1..Len(words) : k - 1 \in 0..(WORDS_LEN - 1)


(***************************************************************************)
(* C15: only the original argv-shell process runs the read loop.  A forked *)
(* child is at its execv, is the program it named, or, its execv having    *)
(* failed, is on its way through perror and return 1 to its end; it never  *)
(* reads a line or forks.  So the shell has at most one live child at any  *)
(* time, and processes are created by the shell's fork alone, one for each *)
(* line read whose fork succeeded: the number of processes is at most the  *)
(* number of lines reported plus the line being handled.                   *)
(***************************************************************************)
LiveKids == {p \in Pids : kids[p].st \notin {"zombie", "reaped"}}

C15_OnlyTheShellRunsTheLoop ==
  /\ [](IsShell => Cardinality(LiveKids) <= 1)
  /\ [](IsShell => \A p \in Pids :
          /\ kids[p].st \in {"execv", "perror", "return", "program",
                             "zombie", "reaped"}
          /\ p \in xfail => kids[p].st \in {"perror", "return", "zombie", "reaped"}
          /\ kids[p].st = "program" => p \notin xfail)
  /\ [](IsShell => Len(kids) <= Len(StatusLines)
                      + (IF pc \in {"waitpid", "fprintf"} THEN 1 ELSE 0))
  /\ [][IsShell /\ Len(kids') # Len(kids)
          => /\ pc = "fork" /\ pc' = "waitpid"
             /\ Len(kids') = Len(kids) + 1
             /\ child' = Len(kids')
             /\ kids'[child'].st = "execv"]_vars

C15_Witness ==
  /\ IsShell /\ pc = "waitpid" /\ Len(kids) >= 2
  /\ 1 \in xfail /\ kids[1].st = "reaped"
  /\ child = Len(kids) /\ kids[child].st = "program"

=============================================================================
